---- MODULE Spec2Model ----
(***************************************************************************)
(* The LLM gateway of Force-Journal-Web (app/api/llm/route.ts): the POST   *)
(* handler, its three provider adapters and the provider registry, as a    *)
(* state machine.  A request is handled in two steps, split at the         *)
(* handler's suspension point, the outbound provider call: POST runs from  *)
(* the arrival of the request to the response or to the call,              *)
(* ProviderReply from the provider's reply to the response.                *)
(*                                                                         *)
(* Spec         one request after the other, every kind of request body,   *)
(*              environment and provider reply                             *)
(* FairSpec     Spec, with every outbound call answered in the end         *)
(* SpecOptions  one request after the other, with the options' flags and   *)
(*              sampling parameters                                        *)
(* SpecEnv      one request after the other, with process.env changed      *)
(*              while the process runs                                     *)
(* SpecConc     requests that arrive while others are suspended            *)
(*                                                                         *)
(* The entry viewer of the journal (app/journal/JournalModal.tsx), a React *)
(* component: its props, its state, its effects and its event handlers.    *)
(*                                                                         *)
(* SpecModal    the mounted component under renders by its parent, clicks  *)
(*              and key presses                                            *)
(***************************************************************************)
EXTENDS Integers, Sequences, FiniteSets, TLC

VARIABLES
    env,      \* process.env: the default provider and the three credentials
    pc,       \* "idle" | "awaiting" (suspended at the provider call) | "done"
    req,      \* the body of the request being handled
    invoked,  \* the adapters POST has invoked for this request, in order
    calls,    \* the outbound provider calls made for this request, in order
    reply,    \* the provider's reply to the outbound call, once it arrived
    resp,     \* the outcome of POST: the response, or an exception thrown
    env0,     \* process.env as it was at process start
    pending,  \* the handlers suspended at their provider call (SpecConc)
    props,    \* JournalModal: the props of the latest render
    currentImageIndex,  \* JournalModal: the state of that name
    deps,     \* JournalModal: the dependencies the effects last ran with
    listeners,  \* the keydown listeners registered on document
    shown,    \* JournalModal: what the latest render put on screen
    phase,    \* JournalModal: "effects" between a render and its effects, else "idle"
    fired,    \* the callbacks of the parent the latest event called, in order
    lastEvent \* the latest event the component handled

gatewayVars == <<env, pc, req, invoked, calls, reply, resp, env0, pending>>
modalVars == <<props, currentImageIndex, deps, listeners, shown, phase, fired, lastEvent>>
vars == <<gatewayVars, modalVars>>

\* How many handlers may be suspended at once in SpecConc.
MaxInFlight == 2

\* The most images an entry holds, and the most entries the list holds.
MaxImages == 2
MaxEntries == 3

(***************************************************************************)
(* JournalModal.  The parent owns the props; the component keeps           *)
(* currentImageIndex.  A render is followed by its effects before the next *)
(* event is handled.                                                       *)
(***************************************************************************)
\* entry: null, or a JournalEntry by its journalId and the length of its
\* mediaUrl.image.
NoEntry == [journalId |-> "undefined", images |-> 0]
JournalIds == {"j1", "j2"}
JournalEntries == [journalId : JournalIds, images : 0..MaxImages]

\* The functions the parent passes as onClose.
OnCloseFns == {"onClose1", "onClose2"}

\* JournalModalProps, entries by its length.
Props ==
    {q \in [isOpen : BOOLEAN, onClose : OnCloseFns,
            entry : {NoEntry} \cup JournalEntries,
            entries : 0..MaxEntries, currentIndex : 0..MaxEntries] :
        q.currentIndex < q.entries \/ q.currentIndex = 0}

\* a % b of JavaScript: the sign of the dividend.
JsRem(a, b) == IF a >= 0 THEN a % b ELSE 0 - ((0 - a) % b)

OnClose(f) == [cb |-> f, index |-> -1]
OnNavigate(newIndex) == [cb |-> "onNavigate", index |-> newIndex]

\* A variant of the entry navigation that stops at the last and first entry.
handleNavigateClickNoWrap(direction, currentIndex, totalEntries) ==
    IF totalEntries <= 1 THEN <<>>
    ELSE IF direction = "next"
    THEN <<OnNavigate(IF currentIndex + 1 < totalEntries
                      THEN currentIndex + 1 ELSE currentIndex)>>
    ELSE <<OnNavigate(IF currentIndex > 0 THEN currentIndex - 1 ELSE 0)>>

\* handleNavigateClick, with the currentIndex and entries.length of its closure:
\* the calls of onNavigate it makes.
handleNavigateClick(direction, currentIndex, totalEntries) ==
    IF totalEntries <= 1 THEN <<>>
    ELSE IF direction = "next"
    THEN <<OnNavigate(JsRem(currentIndex + 1, totalEntries))>>
    ELSE <<OnNavigate(JsRem(currentIndex - 1 + totalEntries, totalEntries))>>

\* handleImageNavigate, with the images.length and currentImageIndex of its
\* closure: the index it sets.
handleImageNavigate(direction, images, imageIndex) ==
    IF images <= 1 THEN imageIndex
    ELSE IF direction = "next"
    THEN JsRem(imageIndex + 1, images)
    ELSE JsRem(imageIndex - 1 + images, images)

\* The handleKeyDown of one run of the keydown effect: the props it closes over.
Closure(q) ==
    [isOpen |-> q.isOpen, onClose |-> q.onClose, currentIndex |-> q.currentIndex,
     totalEntries |-> q.entries]

\* handleKeyDown: the callbacks it calls for a key.
handleKeyDown(l, key) ==
    IF ~l.isOpen THEN <<>>
    ELSE IF key = "Escape" THEN <<OnClose(l.onClose)>>
    ELSE IF key = "ArrowRight"
    THEN handleNavigateClick("next", l.currentIndex, l.totalEntries)
    ELSE IF key = "ArrowLeft"
    THEN handleNavigateClick("prev", l.currentIndex, l.totalEntries)
    ELSE <<>>

\* document dispatches a keydown to its listeners, in the order of registration.
RECURSIVE DispatchKeyDown(_, _)
DispatchKeyDown(ls, key) ==
    IF ls = <<>> THEN <<>>
    ELSE handleKeyDown(Head(ls), key) \o DispatchKeyDown(Tail(ls), key)

\* The dependencies of the two effects: [entry?.journalId] and
\* [isOpen, onClose, currentIndex, entries.length].
DepsOf(q) ==
    [journalId |-> q.entry.journalId, isOpen |-> q.isOpen, onClose |-> q.onClose,
     currentIndex |-> q.currentIndex, entries |-> q.entries]
KeyDeps(d) == <<d.isOpen, d.onClose, d.currentIndex, d.entries>>

\* What a render puts on screen: nothing without an entry (return null) or
\* while closed; else the primary media, images[currentImageIndex] when the
\* entry has images.
Render(q, imageIndex) ==
    IF q.entry = NoEntry THEN [kind |-> "null", index |-> 0, count |-> 0]
    ELSE IF ~q.isOpen THEN [kind |-> "closed", index |-> 0, count |-> 0]
    ELSE IF q.entry.images > 0
    THEN [kind |-> "image", index |-> imageIndex, count |-> q.entry.images]
    ELSE [kind |-> "other", index |-> 0, count |-> 0]

\* The reset effect runs when entry?.journalId differs from the last run's.
ResetRuns(d, q) == d.journalId # q.entry.journalId

\* removeEventListener: the listener is taken off, if it is registered.
RECURSIVE RemoveListener(_, _)
RemoveListener(ls, l) ==
    IF ls = <<>> THEN <<>>
    ELSE IF Head(ls) = l THEN Tail(ls)
    ELSE <<Head(ls)>> \o RemoveListener(Tail(ls), l)

\* A variant of the keydown effect without its cleanup.
KeydownEffectNoCleanup(ls, d, q) ==
    IF KeyDeps(d) # KeyDeps(DepsOf(q)) THEN Append(ls, Closure(q)) ELSE ls

\* The keydown effect: when one of its dependencies changed, the cleanup of the
\* last run removes its listener and the effect registers a new one.
KeydownEffect(ls, d, q) ==
    IF KeyDeps(d) # KeyDeps(DepsOf(q))
    THEN Append(RemoveListener(ls, Closure([isOpen |-> d.isOpen, onClose |-> d.onClose,
                                           currentIndex |-> d.currentIndex,
                                           entries |-> d.entries])),
                Closure(q))
    ELSE ls

NoEvent == [kind |-> "mount", key |-> ""]

\* The modal is not part of the gateway's specifications.
ModalNotShown ==
    /\ props = [isOpen |-> FALSE, onClose |-> "onClose1", entry |-> NoEntry,
                entries |-> 0, currentIndex |-> 0]
    /\ currentImageIndex = 0
    /\ deps = DepsOf(props)
    /\ listeners = <<>>
    /\ shown = Render(props, 0)
    /\ phase = "idle"
    /\ fired = <<>>
    /\ lastEvent = NoEvent

\* The component is mounted: first render, both effects run.
InitModal ==
    /\ env = [DEFAULT_LLM_PROVIDER |-> [t |-> "undefined", s |-> ""],
              GEMINI_API_KEY |-> [t |-> "undefined", s |-> ""],
              OPENAI_API_KEY |-> [t |-> "undefined", s |-> ""],
              ANTHROPIC_API_KEY |-> [t |-> "undefined", s |-> ""]]
    /\ pc = "idle"
    /\ req = [k |-> "none"]
    /\ invoked = <<>>
    /\ calls = <<>>
    /\ reply = [k |-> "none"]
    /\ resp = [k |-> "none"]
    /\ env0 = env
    /\ pending = <<>>
    /\ props \in Props
    /\ currentImageIndex = 0
    /\ deps = DepsOf(props)
    /\ listeners = <<Closure(props)>>
    /\ shown = Render(props, 0)
    /\ phase = "idle"
    /\ fired = <<>>
    /\ lastEvent = NoEvent

\* The parent renders the component with props of its choice; the component
\* renders with the state it has.
ParentRender ==
    /\ phase = "idle"
    /\ \E q \in Props :
         /\ props' = q
         /\ shown' = Render(q, currentImageIndex)
    /\ phase' = "effects"
    /\ fired' = <<>>
    /\ lastEvent' = [kind |-> "render", key |-> ""]
    /\ UNCHANGED <<currentImageIndex, deps, listeners>>
    /\ UNCHANGED gatewayVars

\* The effects of the render run: the reset of currentImageIndex, with the
\* render it causes, and the keydown effect.
RunEffects ==
    /\ phase = "effects"
    /\ currentImageIndex' =
           IF ResetRuns(deps, props) /\ props.entry # NoEntry
           THEN 0 ELSE currentImageIndex
    /\ listeners' = KeydownEffect(listeners, deps, props)
    /\ shown' = Render(props, currentImageIndex')
    /\ deps' = DepsOf(props)
    /\ phase' = "idle"
    /\ UNCHANGED <<props, fired, lastEvent>>
    /\ UNCHANGED gatewayVars

\* A click on the previous or next image button, which the render shows for an
\* entry with several images.
ImageNavigateClick ==
    /\ phase = "idle"
    /\ shown.kind = "image" /\ props.entry.images > 1
    /\ \E direction \in {"next", "prev"} :
         /\ currentImageIndex' =
                handleImageNavigate(direction, props.entry.images, currentImageIndex)
         /\ lastEvent' = [kind |-> "imageClick", key |-> direction]
    /\ shown' = Render(props, currentImageIndex')
    /\ fired' = <<>>
    /\ UNCHANGED <<props, deps, listeners, phase>>
    /\ UNCHANGED gatewayVars

\* A click on the previous or next entry button, which the render shows for
\* a list of several entries.
NavigateClick ==
    /\ phase = "idle"
    /\ props.isOpen /\ props.entry # NoEntry /\ props.entries > 1
    /\ \E direction \in {"next", "prev"} :
         /\ fired' = handleNavigateClick(direction, props.currentIndex, props.entries)
         /\ lastEvent' = [kind |-> "click", key |-> direction]
    /\ UNCHANGED <<props, currentImageIndex, deps, listeners, shown, phase>>
    /\ UNCHANGED gatewayVars

Keys == {"Escape", "ArrowRight", "ArrowLeft", "Enter"}

\* A key is pressed; document calls its keydown listeners.
KeyDown ==
    /\ phase = "idle"
    /\ \E key \in Keys :
         /\ fired' = DispatchKeyDown(listeners, key)
         /\ lastEvent' = [kind |-> "keydown", key |-> key]
    /\ UNCHANGED <<props, currentImageIndex, deps, listeners, shown, phase>>
    /\ UNCHANGED gatewayVars

NextModal ==
    ParentRender \/ RunEffects \/ ImageNavigateClick \/ NavigateClick \/ KeyDown

SpecModal == InitModal /\ [][NextModal]_vars

(***************************************************************************)
(* JavaScript values: undefined, null, strings, numbers (by their decimal   *)
(* text), booleans and objects (a record with the object's own fields next *)
(* to t and s).                                                            *)
(***************************************************************************)
Undefined == [t |-> "undefined", s |-> ""]
Null == [t |-> "null", s |-> ""]
Str(x) == [t |-> "string", s |-> x]
Num(x) == [t |-> "number", s |-> x]
Bool(b) == [t |-> "boolean", s |-> IF b THEN "true" ELSE "false"]
EmptyObject == [t |-> "object", s |-> ""]

\* The object o with the field f set to v.
WithField(o, f, v) ==
    [x \in DOMAIN o \cup {f} |-> IF x = f THEN v ELSE o[x]]

\* o.f for an o that is neither null nor undefined: undefined when o has no f.
Get(o, f) == IF f \in DOMAIN o THEN o[f] ELSE Undefined

\* A variant of ToBoolean that only tests presence (prompt === undefined).
ToBooleanPresence(v) == v.t \notin {"undefined"}

\* The truthiness the tests !prompt, !apiKey and a || b rest on.
ToBoolean(v) ==
    CASE v.t = "undefined" -> FALSE
      [] v.t = "null" -> FALSE
      [] v.t = "string" -> v.s # ""
      [] v.t = "number" -> v.s # "0"
      [] v.t = "boolean" -> v.s = "true"
      [] OTHER -> TRUE

\* a || b
OrElse(a, b) == IF ToBoolean(a) THEN a ELSE b

(***************************************************************************)
(* The provider registry.                                                  *)
(***************************************************************************)
LLM_CONFIG ==
    [gemini |-> [modelName |-> "gemini-2.0-flash", maxTokens |-> 8192],
     openai |-> [modelName |-> "gpt-3.5-turbo", maxTokens |-> 4096],
     claude |-> [modelName |-> "claude-3-haiku-20240307", maxTokens |-> 4096]]

Providers == {"gemini", "openai", "claude"}

\* The adapter function of each provider.
AdapterOf(p) ==
    CASE p = "gemini" -> "getGeminiResponse"
      [] p = "openai" -> "getOpenAIResponse"
      [] p = "claude" -> "getClaudeResponse"

\* The environment variable each adapter reads its credential from.
CredentialOf(p) ==
    CASE p = "gemini" -> "GEMINI_API_KEY"
      [] p = "openai" -> "OPENAI_API_KEY"
      [] p = "claude" -> "ANTHROPIC_API_KEY"

\* A variant of the lookup that reads the values process.env had at process start.
EnvGetAtStart(name) ==
    CASE name = "GEMINI_API_KEY" -> env0.GEMINI_API_KEY
      [] name = "OPENAI_API_KEY" -> env0.OPENAI_API_KEY
      [] name = "ANTHROPIC_API_KEY" -> env0.ANTHROPIC_API_KEY
      [] name = "DEFAULT_LLM_PROVIDER" -> env0.DEFAULT_LLM_PROVIDER

\* process.env.<name>
EnvGet(name) ==
    CASE name = "GEMINI_API_KEY" -> env.GEMINI_API_KEY
      [] name = "OPENAI_API_KEY" -> env.OPENAI_API_KEY
      [] name = "ANTHROPIC_API_KEY" -> env.ANTHROPIC_API_KEY
      [] name = "DEFAULT_LLM_PROVIDER" -> env.DEFAULT_LLM_PROVIDER

(***************************************************************************)
(* Messages of the exceptions the handler can meet.                        *)
(***************************************************************************)
\* request.json() or response.json() on a body that is not JSON
JsonSyntaxErrorMsg == "Unexpected token < in JSON at position 0"
\* const { prompt, ... } = null
DestructureNullMsg == "Cannot destructure property 'prompt' of null"
\* a property read on null or undefined
ReadOfMsg(base, prop) ==
    "Cannot read properties of " \o base \o " (reading '" \o prop \o "')"
\* fetch() rejects: no connection
FetchFailedMsg == "fetch failed"
\* the Gemini client rejects: network failure or non-success status
GeminiApiErrorMsg == "got status: 429 Too Many Requests"

(***************************************************************************)
(* Results and responses.  A field that is absent is Undefined, as it is   *)
(* after NextResponse.json has serialised the record.                      *)
(***************************************************************************)
\* An LLMResponse, as the body of a response.
LLMResponse(text, model, error) ==
    [text |-> text, model |-> model, error |-> error, details |-> Undefined]

\* The body { error } or { error, details } of a 400 or 500 response.
ErrorBody(error, details) ==
    [text |-> Undefined, model |-> Undefined, error |-> error, details |-> details]

\* NextResponse.json(body, { status })
Json(body, status) == [threw |-> FALSE, status |-> status, body |-> body]

\* POST ends by throwing to its caller (no response).
Thrown(msg) ==
    [threw |-> TRUE, status |-> 0, body |-> ErrorBody(Str(msg), Undefined)]

NoResponse == [threw |-> FALSE, status |-> 0, body |-> ErrorBody(Undefined, Undefined)]

(***************************************************************************)
(* The prompt builders.  A rendered prompt is the sequence of the pieces   *)
(* of its template, each with the part it plays and its text; a template's *)
(* long literals are held by their first line, and the line breaks around  *)
(* the pieces are left out.                                                *)
(***************************************************************************)
Piece(part, text) == [part |-> part, s |-> text]

\* A variant of the insertion that trims the text.
InsertedTrimmed(prompt) ==
    Piece("text", IF prompt.s = " Dear \"diary\", <b>1 & 2</b> "
                  THEN "Dear \"diary\", <b>1 & 2</b>" ELSE prompt.s)

\* ${prompt}: the text a template literal inserts for a value.
Inserted(prompt) ==
    CASE prompt.t = "string" -> Piece("text", prompt.s)
      [] prompt.t = "object" -> Piece("text", "[object Object]")
      [] OTHER -> Piece("text", prompt.s)

\* The optional instruction lines of the OpenAI and Claude builders.
WordCloudLine == Piece("option", "6. Most frequently used words and their context")
MoodLine == Piece("option", "7. Mood distribution and emotional patterns")
GoalsLine == Piece("option", "8. Goals mentioned and progress tracking")
SocialLine == Piece("option", "9. People mentioned and relationship dynamics")

\* if (options.<flag>) structuredPrompt += <line>
IfFlag(options, flag, line) ==
    IF ToBoolean(Get(options, flag)) THEN <<line>> ELSE <<>>

\* A variant in which the goals line is appended only when no mood line is.
OptionLinesElseIf(options) ==
    IfFlag(options, "includeWordCloud", WordCloudLine)
    \o IfFlag(options, "includeMoodDistribution", MoodLine)
    \o (IF ToBoolean(Get(options, "includeMoodDistribution"))
        THEN <<>> ELSE IfFlag(options, "includeGoals", GoalsLine))
    \o IfFlag(options, "includeSocialInteractions", SocialLine)

\* The four if statements of the OpenAI and Claude builders.
OptionLines(options) ==
    IfFlag(options, "includeWordCloud", WordCloudLine)
    \o IfFlag(options, "includeMoodDistribution", MoodLine)
    \o IfFlag(options, "includeGoals", GoalsLine)
    \o IfFlag(options, "includeSocialInteractions", SocialLine)

\* The closing of the OpenAI and Claude prompts: the directive, then the example.
JsonObjectDirective ==
    Piece("directive", "Return ONLY a valid JSON object with the following structure:")
JsonObjectExample ==
    Piece("example", "{ \"sentiment\": { \"overall\": \"string description\", \"score\": number }, ... }")

formatJournalPromptForOpenAI(prompt, options) ==
    <<Piece("head", "Analyze the following journal entries and provide detailed insights:"),
      Inserted(prompt),
      Piece("analyses", "Please provide the following analysis as a JSON object: 1. ... 5.")>>
    \o OptionLines(options)
    \o <<JsonObjectDirective, JsonObjectExample>>

\* A variant of the Claude builder that appends the optional lines last.
formatJournalPromptForClaudeOptionsLast(prompt, options) ==
    <<Piece("head", "Analyze the following journal entries and provide comprehensive insights:"),
      Inserted(prompt),
      Piece("analyses", "Please provide the following analysis in a JSON format: 1. ... 5.")>>
    \o <<JsonObjectDirective, JsonObjectExample>>
    \o OptionLines(options)

formatJournalPromptForClaude(prompt, options) ==
    <<Piece("head", "Analyze the following journal entries and provide comprehensive insights:"),
      Inserted(prompt),
      Piece("analyses", "Please provide the following analysis in a JSON format: 1. ... 5.")>>
    \o OptionLines(options)
    \o <<JsonObjectDirective, JsonObjectExample>>

\* A variant of the Gemini builder that asks for the flow data on includeFlowData only.
formatJournalPromptForGeminiFlowOptional(prompt, options) ==
    <<Piece("head", "You are a professional journal analyzer. Analyze the following journal entries and provide both advanced visual and textual insights:"),
      Inserted(prompt),
      IF ToBoolean(Get(options, "includeFlowData"))
      THEN Piece("analyses", "Please provide the following analysis: 1. ... 6. Flow data showing relationships between emotions and factors: ... 22.")
      ELSE Piece("analyses", "Please provide the following analysis: 1. ... 5. ... 22."),
      Piece("format", "Format your response as JSON with the following structure:"),
      IF ToBoolean(Get(options, "includeFlowData"))
      THEN Piece("example", "{ \"keywords\": string[], ... \"flowData\": { \"nodes\": [...], \"edges\": [...] }, ... }")
      ELSE Piece("example", "{ \"keywords\": string[], ... }"),
      Piece("directive", "Return ONLY valid JSON.")>>

\* The Gemini builder does not read its options.  Its numbered analyses hold the
\* flow data request (6.), its example the flowData nodes and edges.
formatJournalPromptForGemini(prompt, options) ==
    <<Piece("head", "You are a professional journal analyzer. Analyze the following journal entries and provide both advanced visual and textual insights:"),
      Inserted(prompt),
      Piece("analyses", "Please provide the following analysis: 1. ... 6. Flow data showing relationships between emotions and factors: ... 22."),
      Piece("format", "Format your response as JSON with the following structure:"),
      Piece("example", "{ \"keywords\": string[], ... \"flowData\": { \"nodes\": [...], \"edges\": [...] }, ... }"),
      Piece("directive", "Return ONLY valid JSON.")>>

\* The builder each adapter calls.
RenderedPrompt(p, prompt, options) ==
    CASE p = "gemini" -> formatJournalPromptForGemini(prompt, options)
      [] p = "openai" -> formatJournalPromptForOpenAI(prompt, options)
      [] p = "claude" -> formatJournalPromptForClaude(prompt, options)

(***************************************************************************)
(* The provider adapters.  Each is one try block with one catch; the       *)
(* outcome of a piece of the try block is either a thrown exception        *)
(* (threw, with its message) or a value.                                   *)
(***************************************************************************)
Threw(msg) == [threw |-> TRUE, msg |-> msg, text |-> Undefined]
Returned(text) == [threw |-> FALSE, msg |-> "", text |-> text]

\* A variant that names the credential of the Gemini adapter in every message.
MissingKeyMsgCopied(p) ==
    CredentialOf("gemini") \o " is not defined in environment variables"

\* The message of the exception an adapter throws when its credential is unset.
MissingKeyMsg(p) ==
    CredentialOf(p) \o " is not defined in environment variables"

\* The literal an adapter falls back on when a non-success response has no message.
FallbackMsg(p) ==
    CASE p = "openai" -> "OpenAI API error"
      [] p = "claude" -> "Claude API error"

\* Where each adapter sends its call.
Endpoint(p) ==
    CASE p = "gemini" -> "GoogleGenAI.models.generateContent"
      [] p = "openai" -> "https://api.openai.com/v1/chat/completions"
      [] p = "claude" -> "https://api.anthropic.com/v1/messages"

\* temperature: options.temperature || 0.7 (all three adapters)
Temperature(options) == OrElse(Get(options, "temperature"), Num("0.7"))

\* topP / top_p: options.topP || 0.95 (Gemini, OpenAI); Claude's call has none.
TopP(p, options) ==
    IF p = "claude" THEN Undefined
    ELSE OrElse(Get(options, "topP"), Num("0.95"))

\* topK: options.topK || 40 (Gemini); the other calls have none.
TopK(p, options) ==
    IF p = "gemini" THEN OrElse(Get(options, "topK"), Num("40")) ELSE Undefined

\* The outbound call an adapter makes.
OutboundCall(p, apiKey, prompt, options) ==
    [adapter |-> AdapterOf(p),
     endpoint |-> Endpoint(p),
     model |-> LLM_CONFIG[p].modelName,
     content |-> RenderedPrompt(p, prompt, options),
     maxTokens |-> LLM_CONFIG[p].maxTokens,
     temperature |-> Temperature(options),
     topP |-> TopP(p, options),
     topK |-> TopK(p, options),
     apiKey |-> apiKey.s]

\* The try block of an adapter up to its outbound call: the credential check and
\* the evaluation of the call's arguments, which read the options.
\* The value is Threw(msg), or [threw |-> FALSE] with the call to make.
AdapterBegin(p, prompt, options) ==
    LET apiKey == EnvGet(CredentialOf(p)) IN
    IF ~ToBoolean(apiKey)
    THEN [out |-> Threw(MissingKeyMsg(p)), call |-> <<>>]
    ELSE IF options.t = "null"
    THEN [out |-> Threw(ReadOfMsg("null",
                        IF p = "gemini" THEN "temperature" ELSE "includeWordCloud")),
          call |-> <<>>]
    ELSE [out |-> Returned(Undefined), call |-> <<OutboundCall(p, apiKey, prompt, options)>>]

\* if (!response.ok) { const error = await response.json();
\*                     throw new Error(error.error?.message || '... API error') }
NotOk(p, rep) ==
    CASE rep.json = "nonjson" -> Threw(JsonSyntaxErrorMsg)
      [] rep.json = "null" -> Threw(ReadOfMsg("null", "error"))
      [] rep.json = "obj" -> Threw(OrElse(rep.errmsg, Str(FallbackMsg(p))).s)

\* const data = await response.json(), and the text read from the envelope:
\* data.choices[0].message.content (OpenAI), data.content?.[0]?.text || ''
\* (Claude), response.text (Gemini, whose client has parsed the body).
ExtractText(p, rep) ==
    CASE p = "gemini" ->
           IF rep.payload = "full" THEN Returned(rep.text) ELSE Returned(Undefined)
      [] rep.json = "nonjson" -> Threw(JsonSyntaxErrorMsg)
      [] p = "openai" /\ rep.json = "null" -> Threw(ReadOfMsg("null", "choices"))
      [] p = "openai" /\ rep.json = "obj" ->
           (CASE rep.payload = "missing" -> Threw(ReadOfMsg("undefined", "0"))
              [] rep.payload = "empty" -> Threw(ReadOfMsg("undefined", "message"))
              [] rep.payload = "nomessage" -> Threw(ReadOfMsg("undefined", "content"))
              [] rep.payload = "notext" -> Returned(Undefined)
              [] rep.payload = "full" -> Returned(rep.text))
      [] p = "claude" /\ rep.json = "null" -> Threw(ReadOfMsg("null", "content"))
      [] p = "claude" /\ rep.json = "obj" ->
           IF rep.payload = "full"
           THEN Returned(OrElse(rep.text, Str("")))
           ELSE Returned(Str(""))

\* The try block of an adapter from the provider's reply on.
AdapterResume(p, rep) ==
    IF rep.k = "reject" THEN Threw(rep.msg)
    ELSE IF p # "gemini" /\ ~rep.ok THEN NotOk(p, rep)
    ELSE ExtractText(p, rep)

\* A variant of the catch block that keeps the Gemini model name for every adapter.
AdapterCatchCopied(p, msg) ==
    LLMResponse(Str(""), Str(LLM_CONFIG["gemini"].modelName), Str(msg))

\* The catch block of an adapter.
AdapterCatch(p, msg) ==
    LLMResponse(Str(""), Str(LLM_CONFIG[p].modelName), Str(msg))

\* A variant of the return statement that keeps the OpenAI model name.
AdapterReturnCopied(p, text) ==
    LLMResponse(text, Str(LLM_CONFIG["openai"].modelName), Undefined)

\* The return statement at the end of an adapter's try block.
AdapterReturn(p, text) ==
    LLMResponse(text, Str(LLM_CONFIG[p].modelName), Undefined)

\* A variant of an adapter without its catch block.
AdapterSettleNoCatch(p, out) ==
    IF out.threw
    THEN [threw |-> TRUE, msg |-> out.msg, value |-> AdapterCatch(p, out.msg)]
    ELSE [threw |-> FALSE, msg |-> "", value |-> AdapterReturn(p, out.text)]

\* What the adapter's promise settles to: its try block's value, or its catch
\* block's value when the try block threw.  It never rejects.
AdapterSettle(p, out) ==
    IF out.threw
    THEN [threw |-> FALSE, msg |-> "", value |-> AdapterCatch(p, out.msg)]
    ELSE [threw |-> FALSE, msg |-> "", value |-> AdapterReturn(p, out.text)]

(***************************************************************************)
(* The POST handler.                                                       *)
(***************************************************************************)
\* A variant of the switch whose default case falls through to Gemini.
DispatchDefaultGemini(provider) ==
    CASE provider = Str("openai") -> "openai"
      [] provider = Str("claude") -> "claude"
      [] OTHER -> "gemini"

\* A variant of the switch with the OpenAI and Claude cases exchanged.
DispatchExchanged(provider) ==
    CASE provider = Str("gemini") -> "gemini"
      [] provider = Str("openai") -> "claude"
      [] provider = Str("claude") -> "openai"
      [] OTHER -> "none"

\* switch (provider): the case taken, "none" for the default case.
Dispatch(provider) ==
    CASE provider = Str("gemini") -> "gemini"
      [] provider = Str("openai") -> "openai"
      [] provider = Str("claude") -> "claude"
      [] OTHER -> "none"

\* A variant of the destructuring that also defaults a provider that is null
\* (provider ?? process.env.DEFAULT_LLM_PROVIDER).
ParseRequestNullish(body) ==
    CASE body.k = "malformed" ->
           [out |-> Threw(JsonSyntaxErrorMsg),
            prompt |-> Undefined, provider |-> Undefined, options |-> Undefined]
      [] body.k = "null" ->
           [out |-> Threw(DestructureNullMsg),
            prompt |-> Undefined, provider |-> Undefined, options |-> Undefined]
      [] body.k = "object" ->
           [out |-> Returned(Undefined),
            prompt |-> body.prompt,
            provider |-> IF body.provider \in {Undefined, Null}
                         THEN EnvGet("DEFAULT_LLM_PROVIDER") ELSE body.provider,
            options |-> IF body.options = Undefined THEN EmptyObject ELSE body.options]

\* const { prompt, provider = process.env.DEFAULT_LLM_PROVIDER, options = {} }
\*     = await request.json()
\* A default applies to a field that is undefined, not to one that is null.
ParseRequest(body) ==
    CASE body.k = "malformed" ->
           [out |-> Threw(JsonSyntaxErrorMsg),
            prompt |-> Undefined, provider |-> Undefined, options |-> Undefined]
      [] body.k = "null" ->
           [out |-> Threw(DestructureNullMsg),
            prompt |-> Undefined, provider |-> Undefined, options |-> Undefined]
      [] body.k = "object" ->
           [out |-> Returned(Undefined),
            prompt |-> body.prompt,
            provider |-> IF body.provider = Undefined
                         THEN EnvGet("DEFAULT_LLM_PROVIDER") ELSE body.provider,
            options |-> IF body.options = Undefined THEN EmptyObject ELSE body.options]

\* A variant of the catch block of POST that rethrows.
PostCatchRethrow(msg) == Thrown(msg)

\* The catch block of POST.
PostCatch(msg) ==
    Json(ErrorBody(Str("Failed to process request"), Str(msg)), 500)

\* A variant of the end of POST without its return statement.
PostFinishNoReturn(settled) ==
    IF settled.threw THEN PostCatch(settled.msg)
    ELSE [threw |-> FALSE, status |-> 0, body |-> settled.value]

\* return NextResponse.json(response), or the catch block when the awaited
\* adapter rejected.
PostFinish(settled) ==
    IF settled.threw THEN PostCatch(settled.msg) ELSE Json(settled.value, 200)

\* A variant of POST that selects the provider before it checks the prompt.
PostBeginProviderFirst(body) ==
    LET parsed == ParseRequest(body)
        p == Dispatch(parsed.provider)
        begun == AdapterBegin(p, parsed.prompt, parsed.options)
    IN
    IF parsed.out.threw
    THEN [pc |-> "done", resp |-> PostCatch(parsed.out.msg),
          invoked |-> <<>>, calls |-> <<>>]
    ELSE IF p = "none"
    THEN [pc |-> "done",
          resp |-> Json(ErrorBody(Str("Invalid LLM provider"), Undefined), 400),
          invoked |-> <<>>, calls |-> <<>>]
    ELSE IF ~ToBoolean(parsed.prompt)
    THEN [pc |-> "done",
          resp |-> Json(ErrorBody(Str("Prompt is required"), Undefined), 400),
          invoked |-> <<>>, calls |-> <<>>]
    ELSE IF begun.out.threw
    THEN [pc |-> "done", resp |-> PostFinish(AdapterSettle(p, begun.out)),
          invoked |-> <<AdapterOf(p)>>, calls |-> <<>>]
    ELSE [pc |-> "awaiting", resp |-> NoResponse,
          invoked |-> <<AdapterOf(p)>>, calls |-> begun.call]

\* POST from the arrival of the request to its response, or to the outbound
\* call of the adapter it invoked (pc "awaiting").
PostBegin(body) ==
    LET parsed == ParseRequest(body)
        p == Dispatch(parsed.provider)
        begun == AdapterBegin(p, parsed.prompt, parsed.options)
    IN
    IF parsed.out.threw
    THEN [pc |-> "done", resp |-> PostCatch(parsed.out.msg),
          invoked |-> <<>>, calls |-> <<>>]
    ELSE IF ~ToBoolean(parsed.prompt)
    THEN [pc |-> "done",
          resp |-> Json(ErrorBody(Str("Prompt is required"), Undefined), 400),
          invoked |-> <<>>, calls |-> <<>>]
    ELSE IF p = "none"
    THEN [pc |-> "done",
          resp |-> Json(ErrorBody(Str("Invalid LLM provider"), Undefined), 400),
          invoked |-> <<>>, calls |-> <<>>]
    ELSE IF begun.out.threw
    THEN [pc |-> "done", resp |-> PostFinish(AdapterSettle(p, begun.out)),
          invoked |-> <<AdapterOf(p)>>, calls |-> <<>>]
    ELSE [pc |-> "awaiting", resp |-> NoResponse,
          invoked |-> <<AdapterOf(p)>>, calls |-> begun.call]

(***************************************************************************)
(* The inputs: the environment, the request bodies, the providers' replies.*)
(***************************************************************************)
ApiKeys == {Undefined, Str("sk-test")}
DefaultProviders ==
    {Undefined, Str("gemini"), Str("openai"), Str("claude"), Str("mistral")}

Prompts == {Undefined, Null, Str(""), Str("x"), Str("Today was good")}
ProviderFields ==
    {Undefined, Null, Str("gemini"), Str("openai"), Str("claude"), Str("unknown")}
OptionFields == {Undefined, Null, EmptyObject}

NoBody ==
    [k |-> "none", prompt |-> Undefined, provider |-> Undefined, options |-> Undefined]

RequestBodies ==
    {[k |-> "malformed", prompt |-> Undefined, provider |-> Undefined,
      options |-> Undefined],
     [k |-> "null", prompt |-> Undefined, provider |-> Undefined,
      options |-> Undefined]}
    \cup [k : {"object"}, prompt : Prompts, provider : ProviderFields,
          options : OptionFields]

\* The call is rejected: no response.
Reject(msg) ==
    [k |-> "reject", ok |-> FALSE, json |-> "none", errmsg |-> Undefined,
     payload |-> "none", text |-> Undefined, msg |-> msg]

\* A response: its ok flag, whether its body parses as JSON (to null or to an
\* object), the error.message of the object, how much of the envelope of the
\* text the object holds, and the text.
Response(ok, json, errmsg, payload, text) ==
    [k |-> "resp", ok |-> ok, json |-> json, errmsg |-> errmsg,
     payload |-> payload, text |-> text, msg |-> ""]

\* No reply yet, or no call made.
NoReply ==
    [k |-> "none", ok |-> FALSE, json |-> "none", errmsg |-> Undefined,
     payload |-> "none", text |-> Undefined, msg |-> ""]

ErrorMessages == {Undefined, Str(""), Str("Rate limit exceeded")}
Texts == {Str("ok"), Str("")}

\* How much of the envelope a success body holds: nothing of it ("missing": no
\* choices, no content), an empty list ("empty"), a first choice without message
\* ("nomessage"), no text in it ("notext"), or all of it ("full").
Envelopes(p) ==
    CASE p = "gemini" -> {"notext"}
      [] p = "openai" -> {"missing", "empty", "nomessage", "notext"}
      [] p = "claude" -> {"missing", "empty", "notext"}

RepliesOf(p) ==
    IF p = "gemini"
    THEN {Reject(FetchFailedMsg), Reject(GeminiApiErrorMsg)}
         \cup {Response(TRUE, "obj", Undefined, e, Undefined) : e \in Envelopes(p)}
         \cup {Response(TRUE, "obj", Undefined, "full", t) : t \in Texts}
    ELSE {Reject(FetchFailedMsg)}
         \cup {Response(ok, j, Undefined, "none", Undefined) :
                 ok \in BOOLEAN, j \in {"nonjson", "null"}}
         \cup {Response(FALSE, "obj", m, "none", Undefined) : m \in ErrorMessages}
         \cup {Response(TRUE, "obj", Undefined, e, Undefined) : e \in Envelopes(p)}
         \cup {Response(TRUE, "obj", Undefined, "full", t) : t \in Texts}

(***************************************************************************)
(* The state machine.                                                      *)
(***************************************************************************)
Init ==
    /\ env \in [DEFAULT_LLM_PROVIDER : DefaultProviders, GEMINI_API_KEY : ApiKeys,
                OPENAI_API_KEY : ApiKeys, ANTHROPIC_API_KEY : ApiKeys]
    /\ pc = "idle"
    /\ req = NoBody
    /\ invoked = <<>>
    /\ calls = <<>>
    /\ reply = NoReply
    /\ resp = NoResponse
    /\ env0 = env
    /\ pending = <<>>
    /\ ModalNotShown

\* A request with one of the bodies arrives, the server being idle, and POST
\* handles it up to its response or its provider call.
Arrive(bodies) ==
    /\ pc \in {"idle", "done"}
    /\ \E body \in bodies :
         LET r == PostBegin(body) IN
         /\ req' = body
         /\ pc' = r.pc
         /\ resp' = r.resp
         /\ invoked' = r.invoked
         /\ calls' = r.calls
    /\ reply' = NoReply
    /\ UNCHANGED <<env, env0, pending>>
    /\ UNCHANGED modalVars

POST == Arrive(RequestBodies)

\* The provider replies; the adapter and POST run to the response.
ProviderReply ==
    /\ pc = "awaiting"
    /\ \E p \in Providers :
         /\ AdapterOf(p) = calls[Len(calls)].adapter
         /\ \E rep \in RepliesOf(p) :
              /\ reply' = rep
              /\ resp' = PostFinish(AdapterSettle(p, AdapterResume(p, rep)))
    /\ pc' = "done"
    /\ UNCHANGED <<env, req, invoked, calls, env0, pending>>
    /\ UNCHANGED modalVars

Next == POST \/ ProviderReply

Spec == Init /\ [][Next]_vars

\* The awaited call resolves: fetch and the Gemini client settle their promise.
FairSpec == Spec /\ WF_vars(ProviderReply)

(***************************************************************************)
(* SpecOptions: requests whose options carry the analysis flags or the     *)
(* sampling parameters, with every credential set.                         *)
(***************************************************************************)
Flags ==
    {"includeWordCloud", "includeMoodDistribution", "includeGoals",
     "includeSocialInteractions"}

\* An options object with the four flags, those of F true.
FlagObject(F) ==
    [t |-> "object", s |-> "",
     includeWordCloud |-> Bool("includeWordCloud" \in F),
     includeMoodDistribution |-> Bool("includeMoodDistribution" \in F),
     includeGoals |-> Bool("includeGoals" \in F),
     includeSocialInteractions |-> Bool("includeSocialInteractions" \in F)]

Temperatures == {Undefined, Num("0"), Num("0.2")}
TopPs == {Undefined, Num("0"), Num("0.5")}
TopKs == {Undefined, Num("0"), Num("10")}

\* An options object with the sampling parameters (undefined: left out).
SamplingObjects ==
    [t : {"object"}, s : {""}, temperature : Temperatures, topP : TopPs,
     topK : TopKs]

\* Options objects with includeFlowData, alone and beside the four flags.
FlowDataObjects ==
    {WithField(o, "includeFlowData", Bool(b)) :
        o \in {EmptyObject, FlagObject({}), FlagObject(Flags)}, b \in BOOLEAN}

OptionObjects ==
    {Undefined, EmptyObject, WithField(EmptyObject, "includeGoals", Bool(TRUE))}
    \cup {FlagObject(F) : F \in SUBSET Flags}
    \cup SamplingObjects
    \cup FlowDataObjects

\* Input texts with blanks at both ends, quotes and markup.
PromptTexts == {Str("x"), Str(" Dear \"diary\", <b>1 & 2</b> ")}

OptionBodies ==
    [k : {"object"}, prompt : {Str("x")},
     provider : {Str("gemini"), Str("openai"), Str("claude")},
     options : OptionObjects]
    \cup [k : {"object"}, prompt : PromptTexts,
          provider : {Str("gemini"), Str("openai"), Str("claude")},
          options : {Undefined, FlagObject({"includeGoals"})}]

InitOptions ==
    /\ env = [DEFAULT_LLM_PROVIDER |-> Undefined, GEMINI_API_KEY |-> Str("sk-test"),
              OPENAI_API_KEY |-> Str("sk-test"), ANTHROPIC_API_KEY |-> Str("sk-test")]
    /\ pc = "idle"
    /\ req = NoBody
    /\ invoked = <<>>
    /\ calls = <<>>
    /\ reply = NoReply
    /\ resp = NoResponse
    /\ env0 = env
    /\ pending = <<>>
    /\ ModalNotShown

PostOptions == Arrive(OptionBodies)

NextOptions == PostOptions \/ ProviderReply

SpecOptions == InitOptions /\ [][NextOptions]_vars

(***************************************************************************)
(* SpecEnv: process.env is an object of the process that other code of the *)
(* process may assign to between and during requests.                      *)
(***************************************************************************)
Envs ==
    [DEFAULT_LLM_PROVIDER : {Undefined, Str("openai")}, GEMINI_API_KEY : ApiKeys,
     OPENAI_API_KEY : ApiKeys, ANTHROPIC_API_KEY : ApiKeys]

EnvBodies ==
    [k : {"object"}, prompt : {Str("x")},
     provider : {Undefined, Str("gemini"), Str("openai"), Str("claude")},
     options : {Undefined}]

InitEnv ==
    /\ env \in Envs
    /\ pc = "idle"
    /\ req = NoBody
    /\ invoked = <<>>
    /\ calls = <<>>
    /\ reply = NoReply
    /\ resp = NoResponse
    /\ env0 = env
    /\ pending = <<>>
    /\ ModalNotShown

\* The process assigns to process.env.
SetEnv ==
    /\ \E e \in Envs : e # env /\ env' = e
    /\ UNCHANGED <<pc, req, invoked, calls, reply, resp, env0, pending>>
    /\ UNCHANGED modalVars

PostEnv == Arrive(EnvBodies)

NextEnv == PostEnv \/ ProviderReply \/ SetEnv

SpecEnv == InitEnv /\ [][NextEnv]_vars

(***************************************************************************)
(* SpecConc: up to MaxInFlight handlers are suspended at their provider    *)
(* call while further requests arrive; the replies come in any order.      *)
(***************************************************************************)
ConcBodies ==
    [k : {"object"}, prompt : {Str(""), Str("x"), Str("Today was good")},
     provider : {Str("gemini"), Str("openai"), Str("mistral")},
     options : {Undefined}]

InitConc ==
    /\ env = [DEFAULT_LLM_PROVIDER |-> Undefined, GEMINI_API_KEY |-> Str("sk-test"),
              OPENAI_API_KEY |-> Str("sk-test"), ANTHROPIC_API_KEY |-> Undefined]
    /\ pc = "idle"
    /\ req = NoBody
    /\ invoked = <<>>
    /\ calls = <<>>
    /\ reply = NoReply
    /\ resp = NoResponse
    /\ env0 = env
    /\ pending = <<>>
    /\ ModalNotShown

\* The locals of a handler suspended at its await.
Suspended(body, r) == [req |-> body, invoked |-> r.invoked, calls |-> r.calls]

RemoveAt(seq, i) == SubSeq(seq, 1, i - 1) \o SubSeq(seq, i + 1, Len(seq))

\* A variant that resumes the handler suspended last, whichever call was answered.
ResumedLatest(pend, i) == pend[Len(pend)]

\* The handler the reply to the i-th outstanding call resumes: the one that
\* awaits that call.
Resumed(pend, i) == pend[i]

\* A request arrives while others are suspended; POST handles it up to its
\* response or its provider call.
ConcurrentPOST ==
    /\ Len(pending) < MaxInFlight
    /\ \E body \in ConcBodies :
         LET r == PostBegin(body) IN
         /\ req' = body
         /\ pc' = r.pc
         /\ resp' = r.resp
         /\ invoked' = r.invoked
         /\ calls' = r.calls
         /\ pending' = IF r.pc = "awaiting"
                       THEN Append(pending, Suspended(body, r)) ELSE pending
    /\ reply' = NoReply
    /\ UNCHANGED <<env, env0>>
    /\ UNCHANGED modalVars

\* The provider replies to one of the outstanding calls; the handler awaiting
\* it runs to its response.
ConcurrentReply ==
    /\ \E i \in 1..Len(pending) :
         \E p \in Providers :
           /\ AdapterOf(p) = pending[i].calls[1].adapter
           /\ \E rep \in RepliesOf(p) :
                LET h == Resumed(pending, i)
                    ph == CHOOSE q \in Providers : AdapterOf(q) = h.calls[1].adapter
                IN
                /\ reply' = rep
                /\ req' = h.req
                /\ invoked' = h.invoked
                /\ calls' = h.calls
                /\ resp' = PostFinish(AdapterSettle(ph, AdapterResume(ph, rep)))
                /\ pending' = RemoveAt(pending, i)
    /\ pc' = "done"
    /\ UNCHANGED <<env, env0>>
    /\ UNCHANGED modalVars

NextConc == ConcurrentPOST \/ ConcurrentReply

SpecConc == InitConc /\ [][NextConc]_vars

(***************************************************************************)
(* The vocabulary of the properties, stated on the request, the            *)
(* environment, the provider's reply and the response.                     *)
(***************************************************************************)
\* A request is being handled or has been answered.
Handling == pc # "idle"
Answered == pc = "done"

PromptEmptyOrAbsent ==
    req.k = "object" /\ req.prompt \in {Undefined, Null, Str("")}
PromptNonEmpty ==
    req.k = "object" /\ req.prompt.t = "string" /\ req.prompt.s # ""

\* The provider identifier of the request: its provider field, or the default.
ProviderId ==
    IF req.provider = Undefined THEN env.DEFAULT_LLM_PROVIDER ELSE req.provider
Names(p) == PromptNonEmpty /\ ProviderId = Str(p)

ModelNameOf(p) ==
    CASE p = "gemini" -> "gemini-2.0-flash"
      [] p = "openai" -> "gpt-3.5-turbo"
      [] p = "claude" -> "claude-3-haiku-20240307"
AdapterNameOf(p) ==
    CASE p = "gemini" -> "getGeminiResponse"
      [] p = "openai" -> "getOpenAIResponse"
      [] p = "claude" -> "getClaudeResponse"
CredentialUnset(p) ==
    CASE p = "gemini" -> env.GEMINI_API_KEY = Undefined
      [] p = "openai" -> env.OPENAI_API_KEY = Undefined
      [] p = "claude" -> env.ANTHROPIC_API_KEY = Undefined

\* The response with this status and this JSON body.
Responded(status, text, model, error, details) ==
    /\ Answered
    /\ ~resp.threw
    /\ resp.status = status
    /\ resp.body = [text |-> text, model |-> model, error |-> error,
                    details |-> details]

\* C1: a request whose prompt is empty or absent, whatever its provider and
\* options, is answered 400 {error: "Prompt is required"}; no adapter is invoked
\* and no outbound provider call is made.
C1_EmptyPromptIsRejected ==
    (Handling /\ PromptEmptyOrAbsent) =>
        /\ Responded(400, Undefined, Undefined, Str("Prompt is required"), Undefined)
        /\ invoked = <<>>
        /\ calls = <<>>

C1_Witness ==
    /\ Answered
    /\ req.k = "object" /\ req.prompt = Str("") /\ req.provider = Str("gemini")
    /\ env.GEMINI_API_KEY = Str("sk-test")
    /\ resp.status = 400

\* C2: a request with a non-empty prompt whose provider identifier is none of
\* gemini, openai, claude is answered 400 {error: "Invalid LLM provider"}; no
\* adapter is invoked and no outbound provider call is made.
C2_UnknownProviderIsRejected ==
    (Handling /\ PromptNonEmpty /\ ProviderId \notin {Str(p) : p \in Providers}) =>
        /\ Responded(400, Undefined, Undefined, Str("Invalid LLM provider"), Undefined)
        /\ invoked = <<>>
        /\ calls = <<>>

C2_Witness ==
    /\ Answered
    /\ req.k = "object" /\ req.prompt = Str("x") /\ req.provider = Str("unknown")
    /\ resp.status = 400

\* C3: for a request with a non-empty prompt that names a supported provider,
\* POST invokes the adapter of that provider, once, and no other adapter.
C3_DispatchInvokesTheMatchingAdapter ==
    \A p \in Providers :
        (Handling /\ Names(p)) => invoked = <<AdapterNameOf(p)>>

C3_Witness ==
    /\ Answered
    /\ req.k = "object" /\ req.prompt = Str("x") /\ req.provider = Str("claude")
    /\ invoked = <<"getClaudeResponse">>

\* C4: a request with a non-empty prompt that names a supported provider whose
\* credential is unset is answered 200 with text "", the provider's model name
\* and the error "<CREDENTIAL> is not defined in environment variables".
C4_MissingCredentialIsReportedInline ==
    /\ (Handling /\ Names("gemini") /\ CredentialUnset("gemini")) =>
           Responded(200, Str(""), Str("gemini-2.0-flash"),
                     Str("GEMINI_API_KEY is not defined in environment variables"),
                     Undefined)
    /\ (Handling /\ Names("openai") /\ CredentialUnset("openai")) =>
           Responded(200, Str(""), Str("gpt-3.5-turbo"),
                     Str("OPENAI_API_KEY is not defined in environment variables"),
                     Undefined)
    /\ (Handling /\ Names("claude") /\ CredentialUnset("claude")) =>
           Responded(200, Str(""), Str("claude-3-haiku-20240307"),
                     Str("ANTHROPIC_API_KEY is not defined in environment variables"),
                     Undefined)

C4_Witness ==
    /\ Answered
    /\ req.k = "object" /\ req.prompt = Str("x") /\ req.provider = Str("openai")
    /\ env.OPENAI_API_KEY = Undefined
    /\ resp.status = 200
    /\ resp.body.error # Undefined

\* C5: the result an adapter returns, on every path (success, missing
\* credential, upstream failure), has the model name of the adapter's provider,
\* and its text is "" whenever its error is set.
C5_ResultKeepsModelAndEmptyTextOnError ==
    \A p \in Providers :
        (Answered /\ invoked = <<AdapterNameOf(p)>> /\ resp.status = 200) =>
            /\ resp.body.model = Str(ModelNameOf(p))
            /\ (resp.body.error # Undefined => resp.body.text = Str(""))

C5_Witness ==
    /\ Answered
    /\ invoked = <<"getClaudeResponse">>
    /\ reply.k = "resp" /\ ~reply.ok /\ reply.errmsg = Str("Rate limit exceeded")
    /\ resp.status = 200
    /\ resp.body.error = Str("Rate limit exceeded")
    /\ resp.body.model = Str("claude-3-haiku-20240307")

\* C6: a request with a non-empty prompt that names a supported provider is
\* answered 200 whatever the outcome of the adapter is (credential missing, call
\* rejected, non-success response, unparsable body): POST neither throws nor
\* answers 400 or 500.
C6_AdapterFailureIsAnswered200 ==
    (Answered /\ PromptNonEmpty /\ ProviderId \in {Str(p) : p \in Providers}) =>
        /\ ~resp.threw
        /\ resp.status = 200

C6_Witness ==
    /\ Answered
    /\ invoked = <<"getOpenAIResponse">>
    /\ reply.k = "resp" /\ reply.json = "nonjson"
    /\ resp.status = 200

\* The provider answered with a non-success response (OpenAI, Claude).
NonSuccess(p) ==
    Answered /\ invoked = <<AdapterNameOf(p)>> /\ reply.k = "resp" /\ ~reply.ok
\* The non-success response carries a message of the provider.
CarriesMessage ==
    reply.json = "obj" /\ reply.errmsg.t = "string" /\ reply.errmsg.s # ""

\* C7: for OpenAI and Claude, after every non-success response the error of the
\* result is the provider's message when the response carries one and the
\* literal fallback otherwise, also when the body holds no parsable message.
C7_NonSuccessErrorIsMessageOrFallback ==
    /\ NonSuccess("openai") =>
           resp.body.error =
               IF CarriesMessage THEN reply.errmsg ELSE Str("OpenAI API error")
    /\ NonSuccess("claude") =>
           resp.body.error =
               IF CarriesMessage THEN reply.errmsg ELSE Str("Claude API error")

\* The provider call ended in a non-success response (for Gemini, whose client
\* turns it into a rejection, the rejection with the status).
UpstreamNonSuccess ==
    \/ reply.k = "resp" /\ ~reply.ok
    \/ invoked = <<"getGeminiResponse">> /\ reply = Reject(GeminiApiErrorMsg)
\* The provider call ended in a success response without the text payload.
UpstreamMalformed ==
    reply.k = "resp" /\ reply.ok /\ ~(reply.json = "obj" /\ reply.payload = "full")

\* C8: when the provider call ends in a non-success response or in a success
\* response whose envelope lacks the text payload, the request is answered 200
\* with a result whose error is set.
C8_UpstreamFailureSetsError ==
    (Answered /\ invoked # <<>> /\ calls # <<>>
        /\ (UpstreamNonSuccess \/ UpstreamMalformed)) =>
        /\ ~resp.threw
        /\ resp.status = 200
        /\ resp.body.error # Undefined

\* C9: when the credential is present and the provider call succeeds with the
\* text t, the request is answered 200 with {text: t, model: <the provider's
\* model name>} and no error.
C9_SuccessReturnsTextAndModel ==
    \A p \in Providers :
        (Answered /\ invoked = <<AdapterNameOf(p)>>
            /\ reply.k = "resp" /\ reply.ok /\ reply.json = "obj"
            /\ reply.payload = "full") =>
            Responded(200, reply.text, Str(ModelNameOf(p)), Undefined, Undefined)

C9_Witness ==
    /\ Answered
    /\ req.k = "object"
    /\ req.prompt = Str("Today was good") /\ req.provider = Str("gemini")
    /\ reply.k = "resp" /\ reply.text = Str("ok")
    /\ resp.status = 200
    /\ resp.body.text = Str("ok")
    /\ resp.body.model = Str("gemini-2.0-flash")
    /\ resp.body.error = Undefined

\* C10: an exception thrown in POST that no adapter recovers (the request body
\* does not parse, or is null) is answered 500 {error: "Failed to process
\* request", details: <the exception's message>}; POST never throws.
C10_UncaughtExceptionIsAnswered500 ==
    /\ ~resp.threw
    /\ (Handling /\ req.k = "malformed") =>
           Responded(500, Undefined, Undefined, Str("Failed to process request"),
                     Str("Unexpected token < in JSON at position 0"))
    /\ (Handling /\ req.k = "null") =>
           Responded(500, Undefined, Undefined, Str("Failed to process request"),
                     Str("Cannot destructure property 'prompt' of null"))

C10_Witness ==
    /\ Answered
    /\ req.k = "malformed"
    /\ resp.status = 500
    /\ resp.body.details # Undefined

\* C11: every request, given that its outbound call (if any) resolves, ends in
\* one response, and its status is 400, 200 or 500: there is no response before
\* the handler has ended, the handler never throws, and a handler suspended at
\* its call ends.
C11_OneResponseOfThreeKinds ==
    /\ [](Answered => ~resp.threw /\ resp.status \in {200, 400, 500})
    /\ [](~Answered => resp = NoResponse)
    /\ (Handling ~> Answered)

C11_Witness ==
    /\ Answered
    /\ calls # <<>>
    /\ reply.k = "resp"
    /\ resp.status = 200

\* The credential of the provider is present.
CredentialPresent(p) == ~CredentialUnset(p)

\* C12: at most one outbound call is made for a request: one when the prompt is
\* non-empty, the provider supported and its credential present, none when the
\* validation fails or the credential is missing.
C12_OneCallWhenValidElseNone ==
    Handling =>
        /\ Len(calls) <= 1
        /\ Len(calls) = 1 <=>
               \E p \in Providers : Names(p) /\ CredentialPresent(p)

\* C17: a request with a non-empty prompt and no provider field is handled as
\* one naming DEFAULT_LLM_PROVIDER: the default's adapter is invoked when the
\* default is supported, and the answer is 400 "Invalid LLM provider" when it is
\* unset or unsupported; a provider field that is present takes precedence over
\* the default, also when it is null or unsupported.
C17_DefaultProviderWhenAbsent ==
    /\ \A p \in Providers :
           (Handling /\ PromptNonEmpty /\ req.provider = Undefined
               /\ env.DEFAULT_LLM_PROVIDER = Str(p)) =>
               invoked = <<AdapterNameOf(p)>>
    /\ (Handling /\ PromptNonEmpty /\ req.provider = Undefined
           /\ env.DEFAULT_LLM_PROVIDER \notin {Str(p) : p \in Providers}) =>
           /\ Responded(400, Undefined, Undefined, Str("Invalid LLM provider"),
                        Undefined)
           /\ invoked = <<>>
    /\ \A p \in Providers :
           (Handling /\ PromptNonEmpty /\ req.provider = Str(p)) =>
               invoked = <<AdapterNameOf(p)>>
    /\ (Handling /\ PromptNonEmpty
           /\ req.provider \notin {Undefined} \cup {Str(p) : p \in Providers}) =>
           /\ Responded(400, Undefined, Undefined, Str("Invalid LLM provider"),
                        Undefined)
           /\ invoked = <<>>

C17_Witness ==
    /\ Answered
    /\ req.k = "object" /\ req.prompt = Str("x") /\ req.provider = Undefined
    /\ env.DEFAULT_LLM_PROVIDER = Str("claude")
    /\ invoked = <<"getClaudeResponse">>

\* The outbound call of the request, and the options POST passes on.
TheCall == calls[1]
CallOf(p) == calls # <<>> /\ TheCall.adapter = AdapterNameOf(p)
GivenOptions == IF req.options = Undefined THEN [t |-> "object", s |-> ""] ELSE req.options

\* The option holds a value for the field (the field is there and not undefined).
Given(f) == f \in DOMAIN GivenOptions /\ GivenOptions[f] # Undefined
FlagIsSet(f) == f \in DOMAIN GivenOptions /\ GivenOptions[f] = Bool(TRUE)

\* The instruction line of each flag.
LineOfFlag(f) ==
    CASE f = "includeWordCloud" ->
           [part |-> "option", s |-> "6. Most frequently used words and their context"]
      [] f = "includeMoodDistribution" ->
           [part |-> "option", s |-> "7. Mood distribution and emotional patterns"]
      [] f = "includeGoals" ->
           [part |-> "option", s |-> "8. Goals mentioned and progress tracking"]
      [] f = "includeSocialInteractions" ->
           [part |-> "option", s |-> "9. People mentioned and relationship dynamics"]

\* How often a piece occurs in a rendered prompt.
Occurrences(content, piece) ==
    Cardinality({i \in 1..Len(content) : content[i] = piece})
PiecesOf(content, part) ==
    Cardinality({i \in 1..Len(content) : content[i].part = part})
FlagsSet ==
    {f \in {"includeWordCloud", "includeMoodDistribution", "includeGoals",
            "includeSocialInteractions"} : FlagIsSet(f)}

\* C13: the prompt of the OpenAI and Claude builders holds the instruction line
\* of a flag if and only if the flag is set, once, whatever the other three
\* flags are, and no other optional line: each flag set adds one line.
C13_EachFlagAddsItsLineOnce ==
    \A p \in {"openai", "claude"} :
        CallOf(p) =>
            /\ \A f \in {"includeWordCloud", "includeMoodDistribution",
                         "includeGoals", "includeSocialInteractions"} :
                   Occurrences(TheCall.content, LineOfFlag(f)) =
                       IF FlagIsSet(f) THEN 1 ELSE 0
            /\ PiecesOf(TheCall.content, "option") = Cardinality(FlagsSet)
            /\ Len(TheCall.content) = 5 + Cardinality(FlagsSet)

C13_Witness ==
    /\ CallOf("claude")
    /\ FlagsSet = {"includeGoals"}
    /\ Occurrences(TheCall.content, LineOfFlag("includeGoals")) = 1
    /\ Len(TheCall.content) = 6

\* C18: the temperature sent to the provider is the caller's options.temperature
\* whenever the caller gave one, 0 included, and 0.7 only when it gave none; the
\* same for topP (0.95; Gemini, OpenAI) and topK (40; Gemini).
C18_CallerSamplingValuesAreSent ==
    calls # <<>> =>
        /\ TheCall.temperature =
               IF Given("temperature") THEN GivenOptions.temperature ELSE Num("0.7")
        /\ (CallOf("gemini") \/ CallOf("openai")) =>
               TheCall.topP =
                   IF Given("topP") THEN GivenOptions.topP ELSE Num("0.95")
        /\ CallOf("gemini") =>
               TheCall.topK =
                   IF Given("topK") THEN GivenOptions.topK ELSE Num("40")

\* C19: the outbound call of each adapter carries the prompt of the provider's
\* own builder, the model name and token budget of its own registry entry, a
\* temperature and a top-p value, and a top-k value for Gemini only.
C19_CallCarriesOwnPromptModelAndSampling ==
    /\ CallOf("gemini") =>
           /\ TheCall.content = formatJournalPromptForGemini(req.prompt, GivenOptions)
           /\ TheCall.model = "gemini-2.0-flash" /\ TheCall.maxTokens = 8192
           /\ TheCall.temperature # Undefined /\ TheCall.topP # Undefined
           /\ TheCall.topK # Undefined
    /\ CallOf("openai") =>
           /\ TheCall.content = formatJournalPromptForOpenAI(req.prompt, GivenOptions)
           /\ TheCall.model = "gpt-3.5-turbo" /\ TheCall.maxTokens = 4096
           /\ TheCall.temperature # Undefined /\ TheCall.topP # Undefined
           /\ TheCall.topK = Undefined
    /\ CallOf("claude") =>
           /\ TheCall.content = formatJournalPromptForClaude(req.prompt, GivenOptions)
           /\ TheCall.model = "claude-3-haiku-20240307" /\ TheCall.maxTokens = 4096
           /\ TheCall.temperature # Undefined /\ TheCall.topP # Undefined
           /\ TheCall.topK = Undefined

\* The rendered prompt ends with its directive followed by its example.
EndsDirectiveThenExample(content) ==
    /\ Len(content) >= 2
    /\ content[Len(content) - 1].part = "directive"
    /\ content[Len(content)].part = "example"
\* The rendered prompt ends with its example followed by its directive.
EndsExampleThenDirective(content) ==
    /\ Len(content) >= 2
    /\ content[Len(content) - 1].part = "example"
    /\ content[Len(content)].part = "directive"

\* C20 as claimed: every rendered prompt ends with the directive demanding a
\* JSON-only reply followed by the literal example: the directive precedes the
\* example and nothing but the example follows it.
C20_DirectiveThenExample ==
    calls # <<>> => EndsDirectiveThenExample(TheCall.content)

\* C20, amended: every rendered prompt ends with one JSON-only directive and one
\* literal example; in the OpenAI and Claude prompts the directive precedes the
\* example, which is last; in the Gemini prompt the example, introduced by a
\* format line, precedes the directive "Return ONLY valid JSON.", which is last.
C20_ClosingDirectiveAndExample ==
    /\ calls # <<>> =>
           /\ PiecesOf(TheCall.content, "directive") = 1
           /\ PiecesOf(TheCall.content, "example") = 1
    /\ (CallOf("openai") \/ CallOf("claude")) =>
           /\ EndsDirectiveThenExample(TheCall.content)
           /\ TheCall.content[Len(TheCall.content) - 1].s =
                  "Return ONLY a valid JSON object with the following structure:"
    /\ CallOf("gemini") =>
           /\ EndsExampleThenDirective(TheCall.content)
           /\ TheCall.content[Len(TheCall.content) - 2].part = "format"
           /\ TheCall.content[Len(TheCall.content)].s = "Return ONLY valid JSON."

C20_Witness ==
    /\ CallOf("gemini")
    /\ TheCall.content[Len(TheCall.content)].part = "directive"
    /\ pc = "awaiting"

\* The outcome of a request r that the configuration e determines: rejected for
\* its provider, answered for its missing credential, or a call with e's key.
CredentialIn(e, p) ==
    CASE p = Str("gemini") -> e.GEMINI_API_KEY
      [] p = Str("openai") -> e.OPENAI_API_KEY
      [] p = Str("claude") -> e.ANTHROPIC_API_KEY
CredentialNameOf(p) ==
    CASE p = Str("gemini") -> "GEMINI_API_KEY"
      [] p = Str("openai") -> "OPENAI_API_KEY"
      [] p = Str("claude") -> "ANTHROPIC_API_KEY"
OutcomeFits(e, r, c, q, x) ==
    LET p == IF r.provider = Undefined THEN e.DEFAULT_LLM_PROVIDER ELSE r.provider IN
    IF p \notin {Str("gemini"), Str("openai"), Str("claude")}
    THEN c = "done" /\ q = <<>> /\ x.status = 400
    ELSE IF CredentialIn(e, p) = Undefined
    THEN /\ c = "done" /\ q = <<>> /\ x.status = 200
         /\ x.body.error =
                Str(CredentialNameOf(p) \o " is not defined in environment variables")
    ELSE /\ Len(q) = 1
         /\ q[1].adapter = AdapterNameOf(p.s)
         /\ q[1].apiKey = CredentialIn(e, p).s

\* C15 as claimed: the selector and the credentials are read once at process
\* start: the outcome of every request is the one the configuration at process
\* start determines, whatever was changed since.
C15_OutcomeFitsConfigurationAtStart ==
    Handling => OutcomeFits(env0, req, pc, calls, resp)

\* C15, amended: the selector and the credential are read from process.env while
\* POST handles the request up to its provider call: the outcome is the one the
\* configuration in force at that time determines, also when it differs from
\* the one at process start, and a change made while the request awaits its
\* provider leaves the call it has issued alone.
C15_OutcomeFitsConfigurationAtRequest ==
    /\ [][(pc \in {"idle", "done"} /\ env' = env) =>
              OutcomeFits(env, req', pc', calls', resp')]_vars
    /\ [][pc = "awaiting" => calls' = calls /\ req' = req]_vars

C15_Witness ==
    /\ Answered
    /\ req.provider = Str("openai")
    /\ env0.OPENAI_API_KEY = Undefined
    /\ env.OPENAI_API_KEY = Str("sk-test")
    /\ calls # <<>> /\ calls[1].apiKey = "sk-test"
    /\ reply.k = "resp" /\ resp.status = 200

\* The handler whose locals are these is the i-th of the suspended ones, and it
\* is the one taken off them.
TakenOff(i) ==
    /\ pending[i] = [req |-> req', invoked |-> invoked', calls |-> calls']
    /\ pending' = [j \in 1..(Len(pending) - 1) |->
                       IF j < i THEN pending[j] ELSE pending[j + 1]]

\* The response of the request at hand is the one the request gets when it is
\* handled alone.
AsIfAlone ==
    /\ C1_EmptyPromptIsRejected
    /\ C2_UnknownProviderIsRejected
    /\ C3_DispatchInvokesTheMatchingAdapter
    /\ C4_MissingCredentialIsReportedInline
    /\ C5_ResultKeepsModelAndEmptyTextOnError
    /\ C6_AdapterFailureIsAnswered200
    /\ C9_SuccessReturnsTextAndModel
    /\ C10_UncaughtExceptionIsAnswered500

\* C16: for every interleaving of concurrently handled requests, no handler
\* writes to the credential configuration (the registry is a constant), the
\* reply to a call resumes the handler that issued that call and no other, and
\* each request's response is the one it gets when it is handled alone.
C16_ConcurrentRequestsAreIndependent ==
    /\ [][env' = env]_vars
    /\ [][Len(pending') < Len(pending) =>
              /\ \E i \in 1..Len(pending) : TakenOff(i)
              /\ \E p \in Providers :
                   /\ calls'[1].adapter = AdapterNameOf(p)
                   /\ reply' \in RepliesOf(p)]_vars
    /\ []AsIfAlone

C16_Witness ==
    /\ Answered
    /\ reply.k = "resp" /\ resp.status = 200
    /\ req.provider = Str("openai")
    /\ Len(pending) = 1
    /\ pending[1].req.provider = Str("gemini")

\* C21: the prompt rendered by the Gemini builder is the same for every options
\* record (any values of the four flags and of includeFlowData): it depends on
\* the prompt text only, and always holds the flow data request and the
\* flowData nodes and edges of the schema.
C21_GeminiPromptIgnoresOptions ==
    CallOf("gemini") =>
        /\ \A o \in OptionObjects \ {Undefined} :
               formatJournalPromptForGemini(req.prompt, o) = TheCall.content
        /\ TheCall.content[3] =
               [part |-> "analyses",
                s |-> "Please provide the following analysis: 1. ... 6. Flow data showing relationships between emotions and factors: ... 22."]
        /\ TheCall.content[5] =
               [part |-> "example",
                s |-> "{ \"keywords\": string[], ... \"flowData\": { \"nodes\": [...], \"edges\": [...] }, ... }"]

C21_Witness ==
    /\ CallOf("gemini")
    /\ "includeFlowData" \in DOMAIN GivenOptions
    /\ GivenOptions.includeFlowData = Bool(FALSE)
    /\ TheCall.content[5].part = "example"

\* The fixed first piece of each builder's template.
HeadOf(p) ==
    CASE p = "gemini" ->
           [part |-> "head",
            s |-> "You are a professional journal analyzer. Analyze the following journal entries and provide both advanced visual and textual insights:"]
      [] p = "openai" ->
           [part |-> "head",
            s |-> "Analyze the following journal entries and provide detailed insights:"]
      [] p = "claude" ->
           [part |-> "head",
            s |-> "Analyze the following journal entries and provide comprehensive insights:"]

\* C22: the prompt rendered by each of the three builders holds the input text
\* unchanged, once, as inserted text, after the builder's fixed head and before
\* its fixed instruction block: rendered for another input text, the prompt
\* differs at that position and nowhere else.
C22_InputTextIsInsertedVerbatim ==
    \A p \in Providers :
        (CallOf(p) /\ req.prompt.t = "string") =>
            /\ TheCall.content[1] = HeadOf(p)
            /\ TheCall.content[2] = [part |-> "text", s |-> req.prompt.s]
            /\ PiecesOf(TheCall.content, "text") = 1
            /\ TheCall.content[3].part = "analyses"
            /\ \A t \in PromptTexts :
                   LET other == RenderedPrompt(p, t, GivenOptions) IN
                   /\ Len(other) = Len(TheCall.content)
                   /\ other[2].s = t.s
                   /\ \A i \in 1..Len(other) : i # 2 => other[i] = TheCall.content[i]

C22_Witness ==
    /\ CallOf("openai")
    /\ req.prompt = Str(" Dear \"diary\", <b>1 & 2</b> ")
    /\ TheCall.content[2].s = " Dear \"diary\", <b>1 & 2</b> "
    /\ FlagsSet = {"includeGoals"}

\* The request names no supported provider, or one whose credential is unset.
ProviderUnrecognized == ProviderId \notin {Str(p) : p \in Providers}
CredentialMissing ==
    \E p \in Providers : ProviderId = Str(p) /\ CredentialUnset(p)

\* C23: POST checks the prompt before it selects the provider and before any
\* credential is looked up: a request whose prompt is empty or absent and whose
\* provider is unrecognized, or whose credential is missing, is answered 400
\* "Prompt is required", never "Invalid LLM provider" and never an inline
\* credential error.
C23_PromptCheckComesFirst ==
    (Handling /\ PromptEmptyOrAbsent /\ (ProviderUnrecognized \/ CredentialMissing)) =>
        /\ Answered
        /\ resp.status = 400
        /\ resp.body.error = Str("Prompt is required")
        /\ resp.body.error # Str("Invalid LLM provider")
        /\ resp.body.text = Undefined
        /\ invoked = <<>>

C23_Witness ==
    /\ Answered
    /\ req.k = "object" /\ req.prompt = Str("") /\ req.provider = Str("unknown")
    /\ resp.status = 400 /\ resp.body.error = Str("Prompt is required")

\* C24: in every state reachable by image clicks and entry changes, whenever the
\* displayed entry has at least one image, the index of the image rendered is
\* smaller than the number of images of the displayed entry.
C24_ImageIndexIsInRange ==
    shown.kind = "image" => shown.index < shown.count

\* The latest event called handleNavigateClick with this direction: a click on
\* an entry button, or an arrow key while the modal is open.
NavigateHandled(direction) ==
    \/ lastEvent = [kind |-> "click", key |-> direction]
    \/ /\ props.isOpen
       /\ lastEvent = [kind |-> "keydown",
                       key |-> IF direction = "next" THEN "ArrowRight" ELSE "ArrowLeft"]

\* C25: for a list of n > 1 entries and currentIndex in 0..n-1, handleNavigateClick
\* calls onNavigate once, with (currentIndex + 1) mod n for next and
\* (currentIndex - 1 + n) mod n for prev: an index in 0..n-1 that wraps at both
\* ends; for n <= 1 it does not call onNavigate.
C25_EntryNavigationWraps ==
    LET n == props.entries
        i == props.currentIndex
    IN
    /\ (NavigateHandled("next") /\ n > 1 /\ i \in 0..(n - 1)) =>
           /\ fired = <<[cb |-> "onNavigate", index |-> (i + 1) % n]>>
           /\ fired[1].index \in 0..(n - 1)
           /\ i = n - 1 => fired[1].index = 0
    /\ (NavigateHandled("prev") /\ n > 1 /\ i \in 0..(n - 1)) =>
           /\ fired = <<[cb |-> "onNavigate", index |-> (i - 1 + n) % n]>>
           /\ fired[1].index \in 0..(n - 1)
           /\ i = 0 => fired[1].index = n - 1
    /\ ((NavigateHandled("next") \/ NavigateHandled("prev")) /\ n <= 1) =>
           fired = <<>>

C25_Witness ==
    /\ lastEvent = [kind |-> "click", key |-> "prev"]
    /\ props.entries = 3 /\ props.currentIndex = 0
    /\ fired = <<[cb |-> "onNavigate", index |-> 2]>>

\* The latest event is a press of this key.
Pressed(key) == lastEvent = [kind |-> "keydown", key |-> key]

\* C26 as claimed: a keydown while the modal is closed calls neither onClose nor
\* onNavigate; a keydown while it is open calls exactly one callback: Escape
\* onClose, ArrowRight and ArrowLeft onNavigate with the next and previous
\* index of the current currentIndex; at most one keydown listener is
\* registered.
C26_KeyDownCallsOneCallback ==
    /\ Len(listeners) <= 1
    /\ (lastEvent.kind = "keydown" /\ ~props.isOpen) => fired = <<>>
    /\ (Pressed("Escape") /\ props.isOpen) =>
           fired = <<[cb |-> props.onClose, index |-> -1]>>
    /\ (Pressed("ArrowRight") /\ props.isOpen) =>
           /\ Len(fired) = 1
           /\ fired[1].cb = "onNavigate"
    /\ (Pressed("ArrowLeft") /\ props.isOpen) =>
           /\ Len(fired) = 1
           /\ fired[1].cb = "onNavigate"

\* C26, amended: a keydown while the modal is closed calls no callback; while
\* it is open, Escape calls onClose once, ArrowRight and ArrowLeft call
\* onNavigate once with the next and previous index of the current
\* currentIndex when the list has more than one entry and call nothing when it
\* has at most one, and every other key calls nothing; exactly one keydown
\* listener is registered, and it holds the current props once the effects of
\* a render have run.
C26_KeyDownCallsAtMostOneCallback ==
    /\ Len(listeners) = 1
    /\ phase = "idle" =>
           listeners[1] = [isOpen |-> props.isOpen, onClose |-> props.onClose,
                           currentIndex |-> props.currentIndex,
                           totalEntries |-> props.entries]
    /\ (lastEvent.kind = "keydown" /\ ~props.isOpen) => fired = <<>>
    /\ (Pressed("Escape") /\ props.isOpen) =>
           fired = <<[cb |-> props.onClose, index |-> -1]>>
    /\ (Pressed("ArrowRight") /\ props.isOpen) =>
           fired = IF props.entries > 1
                   THEN <<[cb |-> "onNavigate",
                           index |-> (props.currentIndex + 1) % props.entries]>>
                   ELSE <<>>
    /\ (Pressed("ArrowLeft") /\ props.isOpen) =>
           fired = IF props.entries > 1
                   THEN <<[cb |-> "onNavigate",
                           index |-> (props.currentIndex - 1 + props.entries)
                                         % props.entries]>>
                   ELSE <<>>
    /\ (lastEvent.kind = "keydown"
        /\ lastEvent.key \notin {"Escape", "ArrowRight", "ArrowLeft"}) =>
           fired = <<>>

C26_Witness ==
    /\ Pressed("ArrowRight")
    /\ props.isOpen
    /\ props.entries = 3 /\ props.currentIndex = 2
    /\ deps.currentIndex = 2
    /\ fired = <<[cb |-> "onNavigate", index |-> 0]>>

====
